---- MODULE Spec2Model ----
(***************************************************************************)
(* Non-strict export utilities of torch/_export/non_strict_utils.py:       *)
(* fakification of example inputs (make_fake_inputs / fakify), guard       *)
(* production and solving (produce_guards_and_solve_constraints) and       *)
(* range-constraint extraction (make_constraints).                         *)
(***************************************************************************)
EXTENDS Integers, Sequences, FiniteSets, TLC

\* ------------------------------------------------------------------ bounds
\* Largest number of leaves of the flattened (args, kwargs) structure.
MaxLeaves == 2
\* Largest number of constraints returned by _process_dynamic_shapes.
MaxConstraints == 2
\* Largest number of invocations of produce_guards_and_solve_constraints.
MaxCalls == 2
\* Largest number of user inputs and of lifted inputs of the traced graph.
MaxInputs == 2
MaxLifted == 1
\* Largest number of entries of params_buffers.
MaxParams == 3
\* Largest number of programs the compiler generates in one run of the harness.
MaxPrograms == 2

\* ------------------------------------------------------------------ values
\* Identities (id(t)) of the example tensors; tensor t has len(t.shape) = t.
TensorIds == {1, 2}
n_dims(t_id) == t_id
Dims == {0, 1}

\* A leaf of the input pytree: its Python type and, for a tensor, its identity.
ConstantKinds == {"NoneType", "int", "float", "bool", "str"}
LeafKinds == {"Tensor", "ScriptObject", "object"} \cup ConstantKinds
LeafValues ==
    {[kind |-> "Tensor", id |-> t] : t \in TensorIds}
        \cup {[kind |-> k, id |-> 0] : k \in LeafKinds \ {"Tensor"}}

\* Key entries of a pytree key path.
SequenceKey(i) == [kind |-> "SequenceKey", idx |-> i, name |-> ""]
MappingKey(k) == [kind |-> "MappingKey", idx |-> 0, name |-> k]
GetAttrKey(n) == [kind |-> "GetAttrKey", idx |-> 0, name |-> n]
OtherKey == [kind |-> "OtherKey", idx |-> 0, name |-> ""]

\* Sources, as the chain of accesses from the local "args".
LocalSource(n) == <<[kind |-> "LocalSource", idx |-> 0, name |-> n]>>
GetItemSource(base, i, k) ==
    Append(base, [kind |-> "GetItemSource", idx |-> i, name |-> k])
AttrSource(base, n) == Append(base, [kind |-> "AttrSource", idx |-> 0, name |-> n])
TensorPropertySource(base, i) ==
    Append(base, [kind |-> "TensorPropertySource.SIZE", idx |-> i, name |-> ""])

\* Python's None for a constraint's shared field, a constraint range, an error.
NoShared == [t_id |-> 0, dim |-> 0]
NoRange == 0
NoError == [type |-> "None", args0 |-> <<>>]
ConstraintViolationError(msg) == [type |-> "ConstraintViolationError", args0 |-> msg]

\* Dictionaries: an empty dict, d[k] = v, and defaultdict(list)'s lookup.
EmptyDict == [x \in {} |-> 0]
Put(d, k, v) == [x \in (DOMAIN d) \cup {k} |-> IF x = k THEN v ELSE d[x]]
GetList(d, k) == IF k \in DOMAIN d THEN d[k] ELSE <<>>

\* ------------------------------------------------------------------ inputs
\* Key paths of the leaves of (args, kwargs): positional arguments, the last
\* of which may instead be a keyword argument, a field of a namedtuple
\* argument or an entry of a container with another kind of key.
ArgPath(i) == <<SequenceKey(0), SequenceKey(i - 1)>>
LastPaths(n) ==
    {ArgPath(n),
     <<SequenceKey(1), MappingKey("k")>>,
     Append(ArgPath(n), GetAttrKey("f")),
     Append(ArgPath(n), OtherKey)}
KeyPathsOf(n) ==
    {[i \in 1..n |-> IF i < n THEN ArgPath(i) ELSE last] : last \in LastPaths(n)}
InputStructures ==
    UNION {{[i \in 1..n |-> [kp |-> kps[i], val |-> vals[i]]] :
                kps \in KeyPathsOf(n), vals \in [1..n -> LeafValues]} :
           n \in 0..MaxLeaves}

\* Constraints as returned by _process_dynamic_shapes, in declaration order.
\* The j-th declared constraint has its own range and debug name.
DebugNames == <<"d1", "d2", "d3", "d4", "d5", "d6">>
ConstraintChoices ==
    [t_id : TensorIds, dim : Dims, shared : {NoShared, [t_id |-> 2, dim |-> 0]}]
ConstraintLists ==
    UNION {{[j \in 1..n |->
                [t_id |-> ch[j].t_id, dim |-> ch[j].dim,
                 constraint_range |-> j, debug_name |-> DebugNames[j],
                 shared |-> ch[j].shared]] :
                ch \in [1..n -> ConstraintChoices]} :
           n \in 0..MaxConstraints}

VARIABLES
    leaves,             \* flattened (args, kwargs): <<[kp, val], ...>>
    constraints,        \* the declared constraints
    pc,                 \* "start", "faked" or "failed"
    error,              \* the error make_fake_inputs raised, "" if none
    fake_leaves,        \* flattened (fake_args, fake_kwargs)
    t_constraints,      \* (t_id, dim) -> constraint
    sources,            \* (t_id, dim) -> list of size sources
    shape_env,          \* fake_mode.shape_env
    equalities_inputs,  \* the EqualityConstraint returned by make_fake_inputs
    history,            \* one record per call of produce_guards_and_solve_constraints
    gm,                 \* the traced graph module: its nodes and its meta
    dynamic_shapes,     \* the dynamic shapes given to make_constraints
    num_lifted_inputs,  \* the number of lifted inputs of gm
    mc_pc,              \* "off", "start", "returned" or "failed"
    mc_error,           \* the error make_constraints raised, "" if none
    processed,          \* the nodes make_constraints read a shape spec for
    range_constraints,  \* the mapping make_constraints returned
    params_buffers,     \* the items of params_buffers, in iteration order
    pb_pc,              \* "off", "start" or "returned"
    faked_params_buffers,   \* the dict make_fake_params_buffers returned
    from_tensor_calls,  \* the calls of fake_mode.from_tensor it made
    code,               \* the programs run_and_get_code returned
    allclose,           \* whether the compiled result matches the reference
    expected_num_block_pointers,
    expected_num_programs,
    expected_num_triton_kernels,
    rc_pc,              \* "off", "start" or "done"
    rc_checks,          \* the calls of count_code run_and_compare made
    rc_failed           \* the assertion of run_and_compare that failed, "" if none

export_vars == <<leaves, constraints, pc, error, fake_leaves, t_constraints,
                 sources, shape_env, equalities_inputs, history>>
mc_vars == <<gm, dynamic_shapes, num_lifted_inputs, mc_pc, mc_error, processed,
             range_constraints>>
pb_vars == <<params_buffers, pb_pc, faked_params_buffers, from_tensor_calls>>
rc_vars == <<code, allclose, expected_num_block_pointers, expected_num_programs,
             expected_num_triton_kernels, rc_pc, rc_checks, rc_failed>>
vars == <<export_vars, mc_vars, pb_vars, rc_vars>>

\* The values of the variables of a function that is not under way.
PBIdle ==
    /\ params_buffers = <<>>
    /\ pb_pc = "off"
    /\ faked_params_buffers = EmptyDict
    /\ from_tensor_calls = <<>>
RCIdle ==
    /\ code = <<>>
    /\ allclose = TRUE
    /\ expected_num_block_pointers = 0
    /\ expected_num_programs = 0
    /\ expected_num_triton_kernels = 0
    /\ rc_pc = "off"
    /\ rc_checks = <<>>
    /\ rc_failed = ""

\* ------------------------------------------------------------------ fakify
RECURSIVE key_path_to_source_from(_, _)
key_path_to_source_from(source, kp) ==
    IF kp = <<>> THEN [error |-> "", source |-> source]
    ELSE LET k == Head(kp) IN
         IF k.kind = "SequenceKey"
         THEN key_path_to_source_from(GetItemSource(source, k.idx, ""), Tail(kp))
         ELSE IF k.kind = "MappingKey"
         THEN key_path_to_source_from(GetItemSource(source, 0, k.name), Tail(kp))
         ELSE IF k.kind = "GetAttrKey"
         THEN key_path_to_source_from(AttrSource(source, k.name), Tail(kp))
         ELSE [error |-> "ValueError: Unknown KeyEntry", source |-> <<>>]

key_path_to_source(kp) == key_path_to_source_from(LocalSource("args"), kp)

_is_constant_argument(t) ==
    t.kind = "NoneType" \/ t.kind \in {"int", "float", "bool", "str"}

\* isinstance(t, torch.ScriptObject) and isinstance(t, torch.Tensor)
is_script_object(t) == t.kind = "ScriptObject"

\* A slip: the isinstance(t, torch.Tensor) check is missing.
is_tensor_unchecked(t) == TRUE

is_tensor(t) == t.kind = "Tensor"


\* A slip: every leaf is returned as it is.
passes_through_every_leaf(t) == TRUE

\* A leaf that fakify returns as it is.
passes_through(t) == _is_constant_argument(t) \/ is_script_object(t)

StatelessSymbolicContext(n) ==
    [dynamic_sizes |-> [i \in 1..n |-> "STATIC"],
     constraint_sizes |-> [i \in 1..n |-> NoRange]]

\* The dimensions i of t_constraints[t_id].items().
constrained_dims(t_cs, t_id) == {i \in Dims : <<t_id, i>> \in DOMAIN t_cs}


\* A slip: the constrained dimension is marked DYNAMIC but its range is not set.
constrain_context_without_range(ctx, t_cs, t_id) ==
    [dynamic_sizes |->
        [p \in DOMAIN ctx.dynamic_sizes |->
            IF p - 1 \in constrained_dims(t_cs, t_id)
            THEN "DYNAMIC" ELSE ctx.dynamic_sizes[p]],
     constraint_sizes |-> ctx.constraint_sizes]

\* The symbolic context after the loop over t_constraints[t_id].items();
\* dimension i is position i + 1 of the lists.
constrain_context(ctx, t_cs, t_id) ==
    [dynamic_sizes |->
        [p \in DOMAIN ctx.dynamic_sizes |->
            IF p - 1 \in constrained_dims(t_cs, t_id)
            THEN "DYNAMIC" ELSE ctx.dynamic_sizes[p]],
     constraint_sizes |->
        [p \in DOMAIN ctx.constraint_sizes |->
            IF p - 1 \in constrained_dims(t_cs, t_id)
            THEN t_cs[<<t_id, p - 1>>].constraint_range
            ELSE ctx.constraint_sizes[p]]]

\* A slip: a source is recorded only for a dimension that has none yet.
record_sources_once(srcs, source, t_cs, t_id) ==
    LET new == {<<t_id, i>> : i \in constrained_dims(t_cs, t_id)} \ DOMAIN srcs IN
    [k \in (DOMAIN srcs) \cup new |->
        IF k \in new THEN <<TensorPropertySource(source, k[2])>> ELSE srcs[k]]

\* sources[(t_id, i)].append(src) for every constrained dimension i.
record_sources(srcs, source, t_cs, t_id) ==
    LET new == {<<t_id, i>> : i \in constrained_dims(t_cs, t_id)} IN
    [k \in (DOMAIN srcs) \cup new |->
        IF k \in new
        THEN Append(GetList(srcs, k), TensorPropertySource(source, k[2]))
        ELSE srcs[k]]

\* source_name_to_debug_name[src.name()] = constraint.debug_name, likewise.
record_debug_names(names, source, t_cs, t_id) ==
    LET new == {TensorPropertySource(source, i) : i \in constrained_dims(t_cs, t_id)} IN
    [s \in (DOMAIN names) \cup new |->
        IF s \in new
        THEN t_cs[<<t_id, s[Len(s)].idx>>].debug_name
        ELSE names[s]]

\* mode.from_tensor(t, source=..., symbolic_context=...): the fake of t.
from_tensor(t) == [kind |-> "FakeTensor", id |-> t.id]

TrackedFake(fake, source, symbolic_context) ==
    [fake |-> fake, source |-> source, symbolic_context |-> symbolic_context]

fakify(env, kp, t, t_cs, srcs) ==
    LET s == key_path_to_source(kp) IN
    IF s.error # ""
    THEN [error |-> s.error, result |-> t, shape_env |-> env, sources |-> srcs]
    ELSE IF passes_through(t)
    THEN [error |-> "", result |-> t, shape_env |-> env, sources |-> srcs]
    ELSE IF ~is_tensor(t)
    THEN [error |-> "ValueError: Unsupported input type", result |-> t,
          shape_env |-> env, sources |-> srcs]
    ELSE IF \E i \in constrained_dims(t_cs, t.id) : i >= n_dims(t.id)
    THEN [error |-> "IndexError", result |-> t, shape_env |-> env, sources |-> srcs]
    ELSE LET ctx == constrain_context(StatelessSymbolicContext(n_dims(t.id)), t_cs, t.id)
             fake == from_tensor(t)
         IN [error |-> "",
             result |-> fake,
             shape_env |->
                [env EXCEPT
                    !.source_name_to_debug_name =
                        record_debug_names(@, s.source, t_cs, t.id),
                    !.tracked_fakes = Append(@, TrackedFake(fake, s.source, ctx))],
             sources |-> record_sources(srcs, s.source, t_cs, t.id)]

\* tree_map_with_path(lambda kp, val: fakify(...), (args, kwargs)): the leaves
\* are mapped in order and keep their key paths; the first error is raised.
RECURSIVE tree_map_with_path(_, _, _, _, _)
tree_map_with_path(todo, done, env, t_cs, srcs) ==
    IF todo = <<>>
    THEN [error |-> "", fake_leaves |-> done, shape_env |-> env, sources |-> srcs]
    ELSE LET r == fakify(env, Head(todo).kp, Head(todo).val, t_cs, srcs) IN
         IF r.error # ""
         THEN [error |-> r.error, fake_leaves |-> <<>>, shape_env |-> env,
               sources |-> srcs]
         ELSE tree_map_with_path(Tail(todo),
                                 Append(done, [kp |-> Head(todo).kp, val |-> r.result]),
                                 r.shape_env, t_cs, r.sources)


\* A slip: an entry of the table is replaced only by a shared constraint.
record_constraint_shared_wins(t_cs, c) ==
    LET key == <<c.t_id, c.dim>>
        own == IF key \in DOMAIN t_cs /\ c.shared = NoShared
               THEN t_cs ELSE Put(t_cs, key, c)
    IN IF c.shared # NoShared
       THEN Put(own, <<c.shared.t_id, c.shared.dim>>, c)
       ELSE own

\* ------------------------------------------------------- make_fake_inputs
\* t_constraints[constraint.t_id][constraint.dim] = constraint, and the same
\* for constraint.shared when it is not None.
record_constraint(t_cs, c) ==
    LET own == Put(t_cs, <<c.t_id, c.dim>>, c) IN
    IF c.shared # NoShared
    THEN Put(own, <<c.shared.t_id, c.shared.dim>>, c)
    ELSE own

RECURSIVE collect_t_constraints(_, _)
collect_t_constraints(t_cs, cs) ==
    IF cs = <<>> THEN t_cs
    ELSE collect_t_constraints(record_constraint(t_cs, Head(cs)), Tail(cs))

\* ShapeEnv(tracked_fakes=[], co_fields=co_fields)
NoDimConstraints == [exists |-> FALSE, solved |-> FALSE, forced |-> {}]
ShapeEnv ==
    [tracked_fakes |-> <<>>,
     source_name_to_debug_name |-> EmptyDict,
     frozen |-> FALSE,
     dim_constraints |-> NoDimConstraints,
     guards |-> {}]

NoEqualities ==
    [source_pairs |-> <<>>, derived_equalities |-> <<>>, phantom_symbols |-> <<>>,
     warn_only |-> FALSE]


\* A slip: a dimension without sources is skipped instead of reported.
_process_equalities_unchecked(c, srcs, source_pairs) ==
    LET own == GetList(srcs, <<c.t_id, c.dim>>)
        shared == IF c.shared = NoShared THEN <<>>
                  ELSE GetList(srcs, <<c.shared.t_id, c.shared.dim>>)
    IN [error |-> "",
        source_pairs |->
            source_pairs
                \o [j \in 1..(Len(own) - 1) |-> <<own[1], own[j + 1]>>]
                \o (IF own = <<>> THEN <<>>
                    ELSE [j \in 1..Len(shared) |-> <<own[1], shared[j]>>])]

\* _process_equalities for one constraint: the first source of the
\* constraint's dimension is paired with its other sources and with the
\* sources of the shared dimension; a dimension without any source is a
\* configuration error.
_process_equalities(c, srcs, source_pairs) ==
    LET own == GetList(srcs, <<c.t_id, c.dim>>)
        shared == IF c.shared = NoShared THEN <<>>
                  ELSE GetList(srcs, <<c.shared.t_id, c.shared.dim>>)
    IN IF own = <<>> \/ (c.shared # NoShared /\ shared = <<>>)
       THEN [error |-> "ConfigurationError", source_pairs |-> source_pairs]
       ELSE [error |-> "",
             source_pairs |->
                source_pairs
                    \o [j \in 1..(Len(own) - 1) |-> <<own[1], own[j + 1]>>]
                    \o [j \in 1..Len(shared) |-> <<own[1], shared[j]>>]]

RECURSIVE process_all_equalities(_, _, _)
process_all_equalities(cs, srcs, source_pairs) ==
    IF cs = <<>> THEN [error |-> "", source_pairs |-> source_pairs]
    ELSE LET r == _process_equalities(Head(cs), srcs, source_pairs) IN
         IF r.error # "" THEN r
         ELSE process_all_equalities(Tail(cs), srcs, r.source_pairs)

\* inspect.signature(nn_module.forward)
forward_signature == "forward(*args, **kwargs)"

make_fake_inputs(args_kwargs, cs) ==
    LET t_cs == collect_t_constraints(EmptyDict, cs)
        f == tree_map_with_path(args_kwargs, <<>>, ShapeEnv, t_cs, EmptyDict)
        e == process_all_equalities(cs, f.sources, <<>>)
        failed == IF f.error # "" THEN f.error ELSE e.error
    IN [error |-> failed,
        t_constraints |-> t_cs,
        sources |-> f.sources,
        shape_env |-> f.shape_env,
        fake_leaves |-> IF failed # "" THEN <<>> ELSE f.fake_leaves,
        equalities_inputs |->
            IF failed # "" THEN NoEqualities
            ELSE [NoEqualities EXCEPT !.source_pairs = e.source_pairs]]

\* ------------------------------------------------------------------ actions
Init ==
    /\ leaves \in InputStructures
    /\ constraints \in ConstraintLists
    /\ pc = "start"
    /\ error = ""
    /\ fake_leaves = <<>>
    /\ t_constraints = EmptyDict
    /\ sources = EmptyDict
    /\ shape_env = ShapeEnv
    /\ equalities_inputs = NoEqualities
    /\ history = <<>>
    /\ gm = [nodes |-> <<>>, inline_constraints |-> EmptyDict]
    /\ dynamic_shapes = [given |-> FALSE, flat |-> <<>>]
    /\ num_lifted_inputs = 0
    /\ mc_pc = "off"
    /\ mc_error = ""
    /\ processed = <<>>
    /\ range_constraints = EmptyDict
    /\ PBIdle
    /\ RCIdle

MakeFakeInputs ==
    /\ pc = "start"
    /\ LET r == make_fake_inputs(leaves, constraints) IN
        /\ pc' = IF r.error # "" THEN "failed" ELSE "faked"
        /\ error' = r.error
        /\ fake_leaves' = r.fake_leaves
        /\ t_constraints' = r.t_constraints
        /\ sources' = r.sources
        /\ shape_env' = r.shape_env
        /\ equalities_inputs' = r.equalities_inputs
    /\ UNCHANGED <<leaves, constraints, history>>
    /\ UNCHANGED <<mc_vars, pb_vars, rc_vars>>

\* ------------------------------------------- the shape environment's engine
\* What tracing can leave in the environment's guards: a violation that
\* produce_guards reports before it creates dim_constraints, one it reports
\* after, and a guard that pins a dynamic dimension to one value.
GuardFacts == {"early_violation", "late_violation", "specialization"}

\* The trace adds a guard; a frozen environment takes no new guards.
add_guard(env, g) == [env EXCEPT !.guards = @ \cup {g}]

\* DimConstraints(...), as produce_guards creates it.
DimConstraints == [exists |-> TRUE, solved |-> FALSE, forced |-> {}]

\* shape_env.produce_guards(placeholders, sources, input_contexts=...,
\* equalities_inputs=..., ignore_static=False)
produce_guards(env, placeholders, srcs, input_contexts, eqs) ==
    IF "early_violation" \in env.guards
    THEN [raised |-> ConstraintViolationError(<<"Constraints violated">>),
          shape_env |-> env]
    ELSE [raised |-> IF "late_violation" \in env.guards
                     THEN ConstraintViolationError(<<"Constraints violated">>)
                     ELSE NoError,
          shape_env |-> [env EXCEPT !.dim_constraints = DimConstraints]]

\* dim_constraints.solve(): the dynamic dimensions the guards pin are the
\* forced specializations; solving a solved system gives the same results.
solve(dc, env) ==
    [dc EXCEPT
        !.solved = TRUE,
        !.forced =
            IF "specialization" \in env.guards
            THEN {env.source_name_to_debug_name[s] :
                    s \in DOMAIN env.source_name_to_debug_name}
            ELSE {}]

\* dim_constraints.forced_specializations()
forced_specializations(dc) == dc.forced

\* dim_constraints.prettify_results(original_signature, error, forced)
prettify_results(signature, err, forced) ==
    (IF forced # {} THEN <<"Specializations unexpectedly required">> ELSE <<>>)
        \o <<"Suggested fixes">>


\* A slip: the placeholders are enumerated last to first.
placeholders_reversed(tracked) ==
    [i \in 1..Len(tracked) |-> tracked[Len(tracked) + 1 - i].fake]

\* ------------------------------------ produce_guards_and_solve_constraints
\* placeholders, sources and input_contexts, read off shape_env.tracked_fakes.
placeholders_of(tracked) == [i \in 1..Len(tracked) |-> tracked[i].fake]
sources_of(tracked) == [i \in 1..Len(tracked) |-> tracked[i].source]
input_contexts_of(tracked) == [i \in 1..Len(tracked) |-> tracked[i].symbolic_context]


\* A slip: the environment is left unfrozen.
freeze_forgotten(env) == env

\* shape_env.frozen = True
freeze(env) == [env EXCEPT !.frozen = TRUE]


\* A slip: the test of dim_constraints is inverted.
nothing_to_solve_inverted(env) == env.dim_constraints.exists

\* dim_constraints is None after guard production: nothing is solved.
nothing_to_solve(env) == ~env.dim_constraints.exists


\* A slip: the diagnostic is not appended to a caught violation.
final_error_without_diagnostic(err, msg, forced) ==
    IF err # NoError THEN err
    ELSE IF forced # {} THEN ConstraintViolationError(msg)
    ELSE NoError

\* The error the function ends with once the diagnostic msg is there.
final_error(err, msg, forced) ==
    IF err # NoError THEN [err EXCEPT !.args0 = @ \o msg]
    ELSE IF forced # {} THEN ConstraintViolationError(msg)
    ELSE NoError

AssertionError == [type |-> "AssertionError", args0 |-> <<>>]

\* A slip: the early violation is raised with a diagnostic added to it.
early_error_with_diagnostic(err) ==
    IF err # NoError THEN [err EXCEPT !.args0 = @ \o <<"Suggested fixes">>]
    ELSE AssertionError

\* assert constraint_violation_error; raise constraint_violation_error
early_error(err) == IF err # NoError THEN err ELSE AssertionError

produce_guards_and_solve_constraints(env, eqs, original_signature) ==
    LET placeholders == placeholders_of(env.tracked_fakes)
        srcs == sources_of(env.tracked_fakes)
        input_contexts == input_contexts_of(env.tracked_fakes)
        pg == produce_guards(env, placeholders, srcs, input_contexts, eqs)
        constraint_violation_error == pg.raised
        frozen_env == freeze(pg.shape_env)
        base == [placeholders |-> placeholders,
                 sources |-> srcs,
                 input_contexts |-> input_contexts,
                 violation |-> constraint_violation_error]
    IN IF nothing_to_solve(frozen_env)
       THEN [shape_env |-> frozen_env,
             result |->
                [args |-> base,
                 calls |-> <<"produce_guards">>,
                 forced_specializations |-> {},
                 outcome |-> "raise",
                 error |-> early_error(constraint_violation_error),
                 frozen_at_solve |-> FALSE,
                 frozen_at_exit |-> frozen_env.frozen,
                 dim_constraints |-> frozen_env.dim_constraints]]
       ELSE LET solved == solve(frozen_env.dim_constraints, frozen_env)
                forced == forced_specializations(solved)
                msg == prettify_results(original_signature,
                                        constraint_violation_error, forced)
                err == final_error(constraint_violation_error, msg, forced)
            IN [shape_env |-> [frozen_env EXCEPT !.dim_constraints = solved],
                result |->
                    [args |-> base,
                     calls |-> <<"produce_guards", "solve",
                                 "remove_redundant_dynamic_results",
                                 "forced_specializations", "prettify_results">>,
                     forced_specializations |-> forced,
                     outcome |-> IF err # NoError THEN "raise" ELSE "return",
                     error |-> err,
                     frozen_at_solve |-> frozen_env.frozen,
                     frozen_at_exit |-> frozen_env.frozen,
                     dim_constraints |-> solved]]

\* Tracing the module under the fake mode records guards in the environment.
Trace ==
    /\ pc = "faked"
    /\ ~shape_env.frozen
    /\ \E g \in GuardFacts \ shape_env.guards :
            shape_env' = add_guard(shape_env, g)
    /\ UNCHANGED <<leaves, constraints, pc, error, fake_leaves, t_constraints,
                   sources, equalities_inputs, history>>
    /\ UNCHANGED <<mc_vars, pb_vars, rc_vars>>

ProduceGuardsAndSolveConstraints ==
    /\ pc = "faked"
    /\ Len(history) < MaxCalls
    /\ LET r == produce_guards_and_solve_constraints(
                    shape_env, equalities_inputs, forward_signature) IN
        /\ shape_env' = r.shape_env
        /\ history' = Append(history, r.result)
    /\ UNCHANGED <<leaves, constraints, pc, error, fake_leaves, t_constraints,
                   sources, equalities_inputs>>
    /\ UNCHANGED <<mc_vars, pb_vars, rc_vars>>

Next ==
    \/ MakeFakeInputs
    \/ Trace
    \/ ProduceGuardsAndSolveConstraints

Spec == Init /\ [][Next]_vars

\* ======================================================== make_constraints
\* Symbols of the shape environment and the expressions of symbolic sizes.
Symbols == {"s0", "s1", "s2", "u0"}
free_symbols(expr) == IF expr = "s0 + 1" THEN {"s0"} ELSE {expr}

ValueRanges(lower, upper) == [lower |-> lower, upper |-> upper]

\* shape_env.var_to_range
var_to_range ==
    [s \in Symbols |->
        IF s = "s0" THEN ValueRanges(2, 64)
        ELSE IF s = "s1" THEN ValueRanges(2, 32)
        ELSE IF s = "s2" THEN ValueRanges(3, 65)
        ELSE ValueRanges(0, 16)]

\* A size of node.meta["val"].shape: an int or a SymInt d with d.node.expr
\* and d.node._expr; the size "s0 + 1" is the replacement of the symbol s2.
StaticSize == [symbolic |-> FALSE, expr |-> "", _expr |-> ""]
SymInt(e, raw) == [symbolic |-> TRUE, expr |-> e, _expr |-> raw]
SymbolicSizes == {SymInt("s0", "s0"), SymInt("s1", "s1"), SymInt("s0 + 1", "s2")}
Shapes ==
    {<<d>> : d \in SymbolicSizes \cup {StaticSize}}
        \cup {<<StaticSize, d>> : d \in SymbolicSizes}

\* The dims a user declares: None, or a Dim with its min and max. Dim(name)
\* belongs to one symbol, and a derived dim (dim + 1) has the bounds of its
\* root shifted by one.
NoDim == [min |-> -1, max |-> -1]
Dim(lo, hi) == [min |-> lo, max |-> hi]
DeclaredDims == {NoDim, Dim(4, 8), Dim(5, 16)}
DimOf(declared, d) ==
    IF ~d.symbolic THEN NoDim
    ELSE IF d.expr = "s0 + 1"
    THEN (IF declared["s0"] = NoDim THEN NoDim
          ELSE Dim(declared["s0"].min + 1, declared["s0"].max + 1))
    ELSE declared[d.expr]

\* Graph nodes: placeholders first (lifted inputs, then user inputs), then
\* the rest of the graph.
Node(op, kind, shape) == [op |-> op, val |-> [kind |-> kind, shape |-> shape]]
UserInputs ==
    {Node("placeholder", "Tensor", sh) : sh \in Shapes}
        \cup {Node("placeholder", "int", <<>>),
              Node("placeholder", "CustomObjArgument", <<>>)}
LiftedInput == Node("placeholder", "Tensor", <<StaticSize>>)
GraphBody ==
    <<Node("call_function", "Tensor", <<SymInt("s1", "s1")>>),
      Node("output", "Tensor", <<SymInt("s1", "s1")>>)>>

\* The flattened shape spec of a user input: None (the empty tuple here) or
\* one declared dim per dimension.
ShapeSpecOf(declared, node, as_none) ==
    LET spec == [i \in DOMAIN node.val.shape |-> DimOf(declared, node.val.shape[i])] IN
    IF node.val.kind # "Tensor" THEN <<>>
    ELSE IF as_none /\ \A i \in DOMAIN spec : spec[i] = NoDim THEN <<>>
    ELSE spec

\* A slip: the declared bounds are stored the wrong way round.
declared_range_swapped(dim) == ValueRanges(dim.max, dim.min)

\* ValueRanges(lower=dim.min, upper=dim.max)
declared_range(dim) == ValueRanges(dim.min, dim.max)

\* Python's list[idx]: an index from -len to len - 1, an IndexError otherwise.
getitem(list, idx) ==
    IF idx >= 0 /\ idx < Len(list) THEN [error |-> "", value |-> list[idx + 1]]
    ELSE IF idx < 0 /\ idx >= -Len(list)
    THEN [error |-> "", value |-> list[Len(list) + idx + 1]]
    ELSE [error |-> "IndexError", value |-> <<>>]

\* dim = shape_spec[i] if shape_spec else None
spec_dim(shape_spec, i) ==
    IF shape_spec # <<>> THEN getitem(shape_spec, i) ELSE [error |-> "", value |-> NoDim]

\* The body of the loop over node.meta["val"].shape for the size d at index i.
record_size(st, shape_spec, i, d) ==
    IF ~d.symbolic THEN st
    ELSE LET dim == spec_dim(shape_spec, i) IN
         IF dim.error # "" THEN [st EXCEPT !.error = dim.error]
         ELSE [st EXCEPT
                !.range_constraints =
                    Put(@, d.expr,
                        IF dim.value # NoDim THEN declared_range(dim.value)
                        ELSE var_to_range[d._expr]),
                !.free_symbols = @ \cup free_symbols(d.expr)]

RECURSIVE record_sizes(_, _, _, _)
record_sizes(st, shape_spec, shape, i) ==
    IF i >= Len(shape) \/ st.error # "" THEN st
    ELSE record_sizes(record_size(st, shape_spec, i, shape[i + 1]),
                      shape_spec, shape, i + 1)

\* A slip: the lifted inputs are not subtracted from the node's position.
spec_index_unshifted(input_index, lifted) == input_index

\* input_index - num_lifted_inputs, the index into flat_dynamic_shapes.
spec_index(input_index, lifted) == input_index - lifted

\* A slip: placeholders of custom objects are not skipped.
is_constant_only(val) == _is_constant_argument(val)

\* _is_constant_argument(node.meta["val"]) or
\* isinstance(node.meta["val"], CustomObjArgument)
is_constant_or_custom(val) ==
    _is_constant_argument(val) \/ val.kind = "CustomObjArgument"

\* The loop over enumerate(gm.graph.nodes), from node input_index on; the
\* nodes whose shape spec is read are logged in st.processed.
RECURSIVE record_nodes(_, _, _, _, _)
record_nodes(st, nodes, flat_dynamic_shapes, lifted, input_index) ==
    IF input_index >= Len(nodes) \/ st.error # "" THEN st
    ELSE LET node == nodes[input_index + 1]
             skipped == \/ input_index < lifted
                        \/ node.op # "placeholder"
                        \/ is_constant_or_custom(node.val)
             idx == spec_index(input_index, lifted)
             shape_spec == getitem(flat_dynamic_shapes, idx)
         IN record_nodes(
                IF skipped THEN st
                ELSE IF shape_spec.error # "" THEN [st EXCEPT !.error = shape_spec.error]
                ELSE record_sizes(
                        [st EXCEPT !.processed =
                            Append(@, [input_index |-> input_index, spec_index |-> idx])],
                        shape_spec.value, node.val.shape, 0),
                nodes, flat_dynamic_shapes, lifted, input_index + 1)

\* A slip: the root symbols of derived dimensions get no entry.
record_free_symbols_skipped(st) == st.range_constraints

\* range_constraints[symbol] = shape_env.var_to_range[symbol] for the free
\* symbols that have no entry yet.
record_free_symbols(st) ==
    [k \in (DOMAIN st.range_constraints) \cup st.free_symbols |->
        IF k \in DOMAIN st.range_constraints
        THEN st.range_constraints[k] ELSE var_to_range[k]]

num_placeholders(nodes) == Cardinality({i \in DOMAIN nodes : nodes[i].op = "placeholder"})

\* A slip: the inline constraints of the graph are left out.
initial_range_constraints_empty(graph) == EmptyDict

\* {symbol: inline_constraints[symbol] for symbol in inline_constraints}
initial_range_constraints(graph) == graph.inline_constraints

make_constraints(graph, shapes, lifted) ==
    LET initial == initial_range_constraints(graph) IN
    IF ~shapes.given \/ shapes.flat = <<>>
    THEN [error |-> "", range_constraints |-> initial, processed |-> <<>>]
    ELSE IF Len(shapes.flat) # num_placeholders(graph.nodes) - lifted
    THEN [error |-> "AssertionError", range_constraints |-> EmptyDict,
          processed |-> <<>>]
    ELSE LET st == record_nodes([range_constraints |-> initial, free_symbols |-> {},
                                 processed |-> <<>>, error |-> ""],
                                graph.nodes, shapes.flat, lifted, 0)
         IN IF st.error # ""
            THEN [error |-> st.error, range_constraints |-> EmptyDict,
                  processed |-> st.processed]
            ELSE [error |-> "", range_constraints |-> record_free_symbols(st),
                  processed |-> st.processed]

\* The graphs and dynamic shapes make_constraints is called with. Without
\* dynamic shapes no constraint is declared and fakify leaves every dimension
\* of the inputs STATIC; a dynamic-shapes structure may have a leaf that no
\* placeholder of the graph matches.
StaticUserInputs ==
    {u \in UserInputs : \A p \in DOMAIN u.val.shape : ~u.val.shape[p].symbolic}
Declarations == [{"s0", "s1"} -> DeclaredDims]
Undeclared == [s \in {"s0", "s1"} |-> NoDim]
InlineConstraints == {EmptyDict, [k \in {"u0"} |-> ValueRanges(0, 10)]}

InitMC ==
    /\ leaves = <<>>
    /\ constraints = <<>>
    /\ pc = "off"
    /\ error = ""
    /\ fake_leaves = <<>>
    /\ t_constraints = EmptyDict
    /\ sources = EmptyDict
    /\ shape_env = ShapeEnv
    /\ equalities_inputs = NoEqualities
    /\ history = <<>>
    /\ mc_pc = "start"
    /\ mc_error = ""
    /\ processed = <<>>
    /\ range_constraints = EmptyDict
    /\ PBIdle
    /\ RCIdle
    /\ num_lifted_inputs \in 0..MaxLifted
    /\ \E n \in 0..MaxInputs : \E given \in BOOLEAN :
       \E inputs \in [1..n -> IF given THEN UserInputs ELSE StaticUserInputs] :
       \E inline \in InlineConstraints :
       \E as_none \in BOOLEAN : \E unmatched \in 0..1 :
       \E declared \in (IF given THEN Declarations ELSE {Undeclared}) :
            /\ given \/ (~as_none /\ unmatched = 0)
            /\ gm = [nodes |-> [i \in 1..num_lifted_inputs |-> LiftedInput]
                                    \o inputs \o GraphBody,
                     inline_constraints |-> inline]
            /\ dynamic_shapes =
                    [given |-> given,
                     flat |-> IF given
                              THEN [i \in 1..n |-> ShapeSpecOf(declared, inputs[i], as_none)]
                                        \o [i \in 1..unmatched |-> <<>>]
                              ELSE <<>>]

MakeConstraints ==
    /\ mc_pc = "start"
    /\ LET r == make_constraints(gm, dynamic_shapes, num_lifted_inputs) IN
        /\ mc_pc' = IF r.error # "" THEN "failed" ELSE "returned"
        /\ mc_error' = r.error
        /\ processed' = r.processed
        /\ range_constraints' = r.range_constraints
    /\ UNCHANGED <<gm, dynamic_shapes, num_lifted_inputs>>
    /\ UNCHANGED <<export_vars, pb_vars, rc_vars>>

NextMC == MakeConstraints

SpecMC == InitMC /\ [][NextMC]_vars

\* ================================================= make_fake_params_buffers
\* The values of the variables of the export functions when they are not
\* under way.
ExportIdle ==
    /\ leaves = <<>>
    /\ constraints = <<>>
    /\ pc = "off"
    /\ error = ""
    /\ fake_leaves = <<>>
    /\ t_constraints = EmptyDict
    /\ sources = EmptyDict
    /\ shape_env = ShapeEnv
    /\ equalities_inputs = NoEqualities
    /\ history = <<>>
MCIdle ==
    /\ gm = [nodes |-> <<>>, inline_constraints |-> EmptyDict]
    /\ dynamic_shapes = [given |-> FALSE, flat |-> <<>>]
    /\ num_lifted_inputs = 0
    /\ mc_pc = "off"
    /\ mc_error = ""
    /\ processed = <<>>
    /\ range_constraints = EmptyDict

\* The names of parameters and buffers, and the dicts params_buffers can be:
\* distinct keys in iteration order, each with a tensor (its identity).
ParamNames == <<"weight", "bias", "running_mean", "running_var", "scale">>
ParamsBuffers ==
    UNION {{[i \in 1..n |-> [key |-> ParamNames[ks[i]], value |-> vs[i]]] :
                ks \in {f \in [1..n -> 1..MaxParams] :
                            \A i \in 1..n : \A j \in 1..n : f[i] = f[j] => i = j},
                vs \in [1..n -> TensorIds]} :
           n \in 0..MaxParams}

\* fake_mode.from_tensor(value, static_shapes=True): every call makes a new
\* fake tensor object, the obj-th one the fake mode made.
from_tensor_static(value, obj) ==
    [kind |-> "FakeTensor", id |-> value, obj |-> obj, static_shapes |-> TRUE]

\* A slip: the memo is never hit.
in_memo_never(memo, value) == FALSE

\* id(value) in memo
in_memo(memo, value) == value \in DOMAIN memo

\* The loop over params_buffers.items(), from the items todo on.
RECURSIVE fake_items(_, _)
fake_items(st, todo) ==
    IF todo = <<>> THEN st
    ELSE LET key == Head(todo).key
             value == Head(todo).value
             hit == in_memo(st.memo, value)
             fake_tensor == IF hit THEN st.memo[value]
                            ELSE from_tensor_static(value, Len(st.calls) + 1)
         IN fake_items(
                [faked_params_buffers |-> Put(st.faked_params_buffers, key, fake_tensor),
                 memo |-> IF hit THEN st.memo ELSE Put(st.memo, value, fake_tensor),
                 calls |-> IF hit THEN st.calls
                           ELSE Append(st.calls, [value |-> value, static_shapes |-> TRUE])],
                Tail(todo))

make_fake_params_buffers(items) ==
    fake_items([faked_params_buffers |-> EmptyDict, memo |-> EmptyDict, calls |-> <<>>],
               items)

InitPB ==
    /\ ExportIdle
    /\ MCIdle
    /\ RCIdle
    /\ params_buffers \in ParamsBuffers
    /\ pb_pc = "start"
    /\ faked_params_buffers = EmptyDict
    /\ from_tensor_calls = <<>>

MakeFakeParamsBuffers ==
    /\ pb_pc = "start"
    /\ LET r == make_fake_params_buffers(params_buffers) IN
        /\ faked_params_buffers' = r.faked_params_buffers
        /\ from_tensor_calls' = r.calls
    /\ pb_pc' = "returned"
    /\ UNCHANGED params_buffers
    /\ UNCHANGED <<export_vars, mc_vars, rc_vars>>

NextPB == MakeFakeParamsBuffers

SpecPB == InitPB /\ [][NextPB]_vars

\* ========================================== run_and_compare (test harness)
\* A generated program, as the pieces of its source text that the harness
\* looks for or passes over; a substring the harness counts lies within one
\* piece and does not overlap itself.
AddKernel ==
    <<"@triton.jit", "tl.make_block_ptr", "tl.make_block_ptr", "tl.make_block_ptr",
      "tl.store">>
PlainKernel == <<"@triton.jit", "tl.load", "tl.store">>
TwoKernels == <<"@triton.jit", "tl.make_block_ptr", "@triton.jit", "tl.make_block_ptr">>
NoKernel == <<>>
Programs == {AddKernel, PlainKernel, TwoKernels, NoKernel}
Codes == UNION {[1..n -> Programs] : n \in 0..MaxPrograms}

\* Python's None for an expected count, and the counts a test expects.
NoExpected == -1
ExpectedBlockPointers == {NoExpected, 0, 3, 9}
ExpectedTritonKernels == {NoExpected, 1, 2}
ExpectedPrograms == {1, 2}

\* prog.count(substr)
count(prog, substr) == Cardinality({i \in DOMAIN prog : prog[i] = substr})

\* A slip: only the first program is counted.
sum_counts_first_program(progs, substr) ==
    IF progs = <<>> THEN 0 ELSE count(Head(progs), substr)

\* sum(prog.count(substr) for prog in code)
RECURSIVE sum_counts(_, _)
sum_counts(progs, substr) ==
    IF progs = <<>> THEN 0
    ELSE count(Head(progs), substr) + sum_counts(Tail(progs), substr)

\* count_code(substr, expected): the call, its count and whether its
\* assertEqual failed.
count_code(progs, substr, expected) ==
    LET n == sum_counts(progs, substr) IN
    [substr |-> substr, expected |-> expected, count |-> n,
     failed |-> expected # NoExpected /\ n # expected]

\* run_and_compare after compilation: the numerical check, the check of the
\* number of programs, then the two counts; the first failed assertion ends it.
run_and_compare(progs, close, num_block_pointers, num_programs, num_triton_kernels) ==
    LET kernels == count_code(progs, "@triton.jit", num_triton_kernels)
        pointers == count_code(progs, "tl.make_block_ptr", num_block_pointers)
    IN IF ~close THEN [failed |-> "allclose", checks |-> <<>>]
       ELSE IF Len(progs) # num_programs THEN [failed |-> "len(code)", checks |-> <<>>]
       ELSE IF kernels.failed THEN [failed |-> "@triton.jit", checks |-> <<kernels>>]
       ELSE IF pointers.failed
       THEN [failed |-> "tl.make_block_ptr", checks |-> <<kernels, pointers>>]
       ELSE [failed |-> "", checks |-> <<kernels, pointers>>]

InitRC ==
    /\ ExportIdle
    /\ MCIdle
    /\ PBIdle
    /\ code \in Codes
    /\ allclose \in BOOLEAN
    /\ expected_num_block_pointers \in ExpectedBlockPointers
    /\ expected_num_programs \in ExpectedPrograms
    /\ expected_num_triton_kernels \in ExpectedTritonKernels
    /\ rc_pc = "start"
    /\ rc_checks = <<>>
    /\ rc_failed = ""

RunAndCompare ==
    /\ rc_pc = "start"
    /\ LET r == run_and_compare(code, allclose, expected_num_block_pointers,
                                expected_num_programs, expected_num_triton_kernels) IN
        /\ rc_failed' = r.failed
        /\ rc_checks' = r.checks
    /\ rc_pc' = "done"
    /\ UNCHANGED <<code, allclose, expected_num_block_pointers, expected_num_programs,
                   expected_num_triton_kernels>>
    /\ UNCHANGED <<export_vars, mc_vars, pb_vars>>

NextRC == RunAndCompare

SpecRC == InitRC /\ [][NextRC]_vars

\* ================================================================== claims
\* The range of a sequence, the tensor leaves of the inputs, the identities
\* of the tensors that were fakified.
Range(f) == {f[x] : x \in DOMAIN f}
IsTensorLeaf(l) == l.val.kind = "Tensor"
IsConstantLeaf(l) == l.val.kind \in ConstantKinds
IsUnsupportedLeaf(l) == ~IsTensorLeaf(l) /\ ~IsConstantLeaf(l)
TensorLeaves == SelectSeq(leaves, IsTensorLeaf)
FakifiedIds == {shape_env.tracked_fakes[i].fake.id : i \in DOMAIN shape_env.tracked_fakes}
Called == DOMAIN history

\* The diagnostic of a call, from the forced specializations it found.
DiagnosticOf(h) ==
    prettify_results(forward_signature, h.args.violation, h.forced_specializations)

\* C1 (as stated): for every invocation, a violation raised by guard
\* production is raised with the diagnostic appended to its message; without
\* one, non-empty forced specializations raise a violation carrying the
\* diagnostic; otherwise the function returns without raising.
C1_AsStated ==
    \A k \in Called :
        LET h == history[k] IN
        IF h.args.violation # NoError
        THEN /\ h.outcome = "raise"
             /\ h.error = ConstraintViolationError(
                            h.args.violation.args0 \o DiagnosticOf(h))
        ELSE IF h.forced_specializations # {}
        THEN /\ h.outcome = "raise"
             /\ h.error = ConstraintViolationError(DiagnosticOf(h))
        ELSE h.outcome = "return" /\ h.error = NoError

\* C1 (amended): as C1, except that a violation after which dim_constraints
\* is None (an early violation) is raised with its message unchanged.
C1_FinalBehaviour ==
    \A k \in Called :
        LET h == history[k] IN
        IF h.args.violation # NoError /\ ~h.dim_constraints.exists
        THEN h.outcome = "raise" /\ h.error = h.args.violation
        ELSE IF h.args.violation # NoError
        THEN /\ h.outcome = "raise"
             /\ h.error = ConstraintViolationError(
                            h.args.violation.args0 \o DiagnosticOf(h))
             /\ DiagnosticOf(h) # <<>>
        ELSE IF h.forced_specializations # {}
        THEN /\ h.outcome = "raise"
             /\ h.error = ConstraintViolationError(DiagnosticOf(h))
        ELSE h.outcome = "return" /\ h.error = NoError

C1_Witness ==
    \E k \in Called :
        /\ history[k].args.violation # NoError
        /\ history[k].dim_constraints.exists
        /\ history[k].outcome = "raise"
        /\ Len(history[k].error.args0) > Len(history[k].args.violation.args0)

\* The calls that build the diagnostic.
DiagnosticCalls == {"solve", "forced_specializations", "prettify_results"}

\* C2 (as stated): in every execution where produce_guards raises a
\* constraint violation, solve, forced-specialization detection and
\* prettify_results all run before the error leaves the function.
C2_AsStated ==
    \A k \in Called :
        history[k].args.violation # NoError
            => DiagnosticCalls \subseteq Range(history[k].calls)

\* C2 (amended): the same, for the executions in which dim_constraints is not
\* None once produce_guards has raised; the error then leaves the function
\* only after those calls, as the function's final raise.
C2_ViolationRetained ==
    \A k \in Called :
        LET h == history[k] IN
        (h.args.violation # NoError /\ h.dim_constraints.exists)
            => /\ h.calls[1] = "produce_guards"
               /\ DiagnosticCalls \subseteq Range(h.calls)
               /\ h.outcome = "raise"
               /\ h.error.type = "ConstraintViolationError"

C2_Witness ==
    \E k \in Called :
        /\ history[k].args.violation # NoError
        /\ history[k].calls[Len(history[k].calls)] = "prettify_results"
        /\ history[k].forced_specializations # {}

C4_Isomorphic ==
    pc = "faked" =>
        /\ Len(fake_leaves) = Len(leaves)
        /\ \A i \in DOMAIN leaves :
            /\ fake_leaves[i].kp = leaves[i].kp
            /\ IsTensorLeaf(leaves[i])
                => /\ fake_leaves[i].val.kind = "FakeTensor"
                   /\ fake_leaves[i].val.id = leaves[i].val.id
            /\ IsConstantLeaf(leaves[i]) => fake_leaves[i].val = leaves[i].val

C4_Witness ==
    /\ pc = "faked"
    /\ \E i \in DOMAIN leaves : \E j \in DOMAIN leaves :
        /\ IsTensorLeaf(leaves[i]) /\ fake_leaves[i].val.kind = "FakeTensor"
        /\ IsConstantLeaf(leaves[j]) /\ fake_leaves[j].val = leaves[j].val

\* What fakify rejects in a leaf by itself: an unknown key entry in its key
\* path, an unsupported type, a constrained dimension the tensor lacks.
HasUnknownKey(l) == \E p \in DOMAIN l.kp : l.kp[p].kind = "OtherKey"
Rejected(l) ==
    \/ HasUnknownKey(l)
    \/ l.val.kind = "object"
    \/ /\ IsTensorLeaf(l)
       /\ \E i \in Dims : <<l.val.id, i>> \in DOMAIN t_constraints /\ i >= n_dims(l.val.id)
FirstRejected(i) == Rejected(leaves[i]) /\ \A j \in 1..(i - 1) : ~Rejected(leaves[j])

\* C5 (as stated): every leaf that is neither a tensor nor a constant makes
\* fakification fail with the unsupported-input-type error; none is passed
\* through into the fake inputs.
C5_AsStated ==
    (pc # "start" /\ \E i \in DOMAIN leaves : IsUnsupportedLeaf(leaves[i]))
        => pc = "failed" /\ error = "ValueError: Unsupported input type"

\* C5 (amended): every leaf that is neither a tensor, a constant nor a
\* torch.ScriptObject makes fakification fail, with the unsupported-input-type
\* error when it is the first leaf fakify rejects and its key path is known;
\* no such leaf is passed through; a ScriptObject leaf is passed through.
C5_UnsupportedLeaf ==
    pc # "start" =>
        /\ (\E i \in DOMAIN leaves : leaves[i].val.kind = "object") => pc = "failed"
        /\ \A i \in DOMAIN leaves :
            (FirstRejected(i) /\ leaves[i].val.kind = "object"
                /\ ~HasUnknownKey(leaves[i]))
                => error = "ValueError: Unsupported input type"
        /\ pc = "faked" =>
            \A i \in DOMAIN leaves :
                /\ fake_leaves[i].val.kind # "object"
                /\ leaves[i].val.kind = "ScriptObject"
                    => fake_leaves[i].val = leaves[i].val

C5_Witness ==
    /\ pc = "failed"
    /\ error = "ValueError: Unsupported input type"
    /\ Len(leaves) = 2
    /\ leaves[1].val.kind = "ScriptObject"
    /\ leaves[2].val.kind = "object"

\* The (tensor, dimension) pairs a constraint references.
Targets(c) ==
    {<<c.t_id, c.dim>>}
        \cup (IF c.shared = NoShared THEN {} ELSE {<<c.shared.t_id, c.shared.dim>>})
InputTensorIds == {leaves[i].val.id : i \in {p \in DOMAIN leaves : IsTensorLeaf(leaves[p])}}
ReferencesAbsentTensor ==
    \E j \in DOMAIN constraints : \E key \in Targets(constraints[j]) :
        key[1] \notin InputTensorIds

\* C6: a constraint (or its shared counterpart) that references a tensor that
\* is no leaf of the inputs makes make_fake_inputs fail, with a configuration
\* error once every leaf is fakified; whenever make_fake_inputs returns, every
\* entry of the constraint table references a tensor that was fakified.
C6_ConstraintsReferenceInputs ==
    /\ (pc # "start" /\ ReferencesAbsentTensor) =>
            /\ pc = "failed"
            /\ (\A i \in DOMAIN leaves : ~Rejected(leaves[i]))
                    => error = "ConfigurationError"
    /\ pc = "faked" => \A key \in DOMAIN t_constraints : key[1] \in FakifiedIds

C6_Witness ==
    /\ pc = "failed"
    /\ error = "ConfigurationError"
    /\ \E j \in DOMAIN constraints :
        /\ constraints[j].t_id \in InputTensorIds
        /\ constraints[j].shared # NoShared
        /\ constraints[j].shared.t_id \notin InputTensorIds

\* C7: after make_fake_inputs, a dimension of a tracked placeholder is DYNAMIC
\* exactly when the constraint table has an entry for (tensor, dimension); it
\* then carries that entry's range and has a size source recorded under
\* (tensor id, dimension); every other dimension is STATIC without a range.
C7_DynamicIffConstrained ==
    pc = "faked" =>
        \A k \in DOMAIN shape_env.tracked_fakes :
            LET tf == shape_env.tracked_fakes[k]
                ctx == tf.symbolic_context
            IN /\ Len(ctx.dynamic_sizes) = n_dims(tf.fake.id)
               /\ Len(ctx.constraint_sizes) = n_dims(tf.fake.id)
               /\ \A i \in 0..(n_dims(tf.fake.id) - 1) :
                    IF <<tf.fake.id, i>> \in DOMAIN t_constraints
                    THEN /\ ctx.dynamic_sizes[i + 1] = "DYNAMIC"
                         /\ ctx.constraint_sizes[i + 1]
                                = t_constraints[<<tf.fake.id, i>>].constraint_range
                         /\ ctx.constraint_sizes[i + 1] # NoRange
                         /\ Len(GetList(sources, <<tf.fake.id, i>>)) >= 1
                         /\ TensorPropertySource(tf.source, i)
                                \in Range(GetList(sources, <<tf.fake.id, i>>))
                    ELSE /\ ctx.dynamic_sizes[i + 1] = "STATIC"
                         /\ ctx.constraint_sizes[i + 1] = NoRange

C7_Witness ==
    /\ pc = "faked"
    /\ \E k \in DOMAIN shape_env.tracked_fakes :
        LET ctx == shape_env.tracked_fakes[k].symbolic_context IN
        /\ Len(ctx.dynamic_sizes) = 2
        /\ ctx.dynamic_sizes[1] = "STATIC"
        /\ ctx.dynamic_sizes[2] = "DYNAMIC"

\* C8: tracked_fakes holds one entry for every tensor leaf, in the order of
\* the leaves, and none for the other leaves; every call of
\* produce_guards_and_solve_constraints hands placeholders, sources and
\* symbolic contexts to produce_guards in that order.
C8_CreationOrder ==
    pc = "faked" =>
        LET tracked == shape_env.tracked_fakes IN
        /\ Len(tracked) = Len(TensorLeaves)
        /\ \A i \in DOMAIN tracked :
            /\ tracked[i].fake.kind = "FakeTensor"
            /\ tracked[i].fake.id = TensorLeaves[i].val.id
            /\ \E p \in DOMAIN leaves :
                /\ leaves[p] = TensorLeaves[i]
                /\ fake_leaves[p].val = tracked[i].fake
            /\ Len(tracked[i].source) = 1 + Len(TensorLeaves[i].kp)
        /\ \A k \in Called :
            LET a == history[k].args IN
            /\ Len(a.placeholders) = Len(tracked)
            /\ Len(a.sources) = Len(tracked)
            /\ Len(a.input_contexts) = Len(tracked)
            /\ \A i \in DOMAIN tracked :
                /\ a.placeholders[i] = tracked[i].fake
                /\ a.sources[i] = tracked[i].source
                /\ a.input_contexts[i] = tracked[i].symbolic_context

C8_Witness ==
    /\ pc = "faked"
    /\ Len(history) >= 1
    /\ Len(leaves) = 2
    /\ Len(shape_env.tracked_fakes) = 2
    /\ history[1].args.placeholders[1].id # history[1].args.placeholders[2].id

\* The last declared constraint that references a (tensor, dimension) pair.
Declaring(key) == {j \in DOMAIN constraints : key \in Targets(constraints[j])}
LastDeclaring(key) == CHOOSE j \in Declaring(key) : \A m \in Declaring(key) : m <= j

\* C9 (as stated): of two constraints on the same (tensor, dimension), the
\* later one replaces the earlier one in the table only if it is marked as
\* shared; a later constraint that is not marked as shared does not win.
C9_AsStated ==
    pc # "start" =>
        \A i \in DOMAIN constraints : \A j \in DOMAIN constraints :
            (/\ i < j
             /\ constraints[i].t_id = constraints[j].t_id
             /\ constraints[i].dim = constraints[j].dim
             /\ constraints[j].shared = NoShared)
                => t_constraints[<<constraints[j].t_id, constraints[j].dim>>]
                        # constraints[j]

\* C9 (amended): the later declared constraint replaces the earlier one
\* whether or not it is marked as shared; a shared constraint also replaces
\* the entry of its shared (tensor, dimension). The entry gives the
\* dimension its constraint range and debug name.
C9_LastDeclaredWins ==
    pc # "start" =>
        /\ DOMAIN t_constraints = UNION {Targets(constraints[j]) : j \in DOMAIN constraints}
        /\ \A key \in DOMAIN t_constraints :
            t_constraints[key] = constraints[LastDeclaring(key)]
        /\ pc = "faked" =>
            \A k \in DOMAIN shape_env.tracked_fakes :
                LET tf == shape_env.tracked_fakes[k] IN
                \A i \in 0..(n_dims(tf.fake.id) - 1) :
                    <<tf.fake.id, i>> \in DOMAIN t_constraints =>
                        LET c == constraints[LastDeclaring(<<tf.fake.id, i>>)] IN
                        /\ tf.symbolic_context.constraint_sizes[i + 1] = c.constraint_range
                        /\ shape_env.source_name_to_debug_name[
                                TensorPropertySource(tf.source, i)] = c.debug_name

C9_Witness ==
    /\ pc = "faked"
    /\ Len(constraints) = 2
    /\ constraints[1].t_id = constraints[2].t_id
    /\ constraints[1].dim = constraints[2].dim
    /\ constraints[2].shared = NoShared
    /\ t_constraints[<<constraints[2].t_id, constraints[2].dim>>] = constraints[2]
    /\ Len(shape_env.tracked_fakes) >= 1

\* The user inputs of the graph that make_constraints reads sizes of, with
\* the position of each among the user inputs.
UserTensorInputs ==
    {i \in DOMAIN gm.nodes :
        /\ i > num_lifted_inputs
        /\ gm.nodes[i].op = "placeholder"
        /\ gm.nodes[i].val.kind = "Tensor"}
SpecOfInput(i) == dynamic_shapes.flat[i - num_lifted_inputs]
ShapesGiven == dynamic_shapes.given /\ dynamic_shapes.flat # <<>>

UserExprs ==
    UNION {{gm.nodes[i].val.shape[p].expr :
                p \in {q \in DOMAIN gm.nodes[i].val.shape :
                            gm.nodes[i].val.shape[q].symbolic}} :
           i \in UserTensorInputs}
UserFreeSymbols == UNION {free_symbols(e) : e \in UserExprs}

\* C11: every free symbol of the size expression of a user-input placeholder
\* dimension is a key of the returned mapping; a symbol that is the
\* expression of no dimension maps to the shape environment's range for it.
C11_FreeSymbolsAreKeys ==
    mc_pc = "returned" =>
        \A s \in UserFreeSymbols :
            /\ s \in DOMAIN range_constraints
            /\ s \notin UserExprs => range_constraints[s] = var_to_range[s]

C11_Witness ==
    /\ mc_pc = "returned"
    /\ "s0 + 1" \in UserExprs
    /\ "s0" \notin UserExprs
    /\ range_constraints["s0"] = var_to_range["s0"]
    /\ range_constraints["s0 + 1"] # var_to_range["s2"]

\* C12: every inline constraint of the graph is in the returned mapping with
\* its range unchanged, with dynamic shapes and without.
C12_InlineConstraintsKept ==
    mc_pc = "returned" =>
        \A k \in DOMAIN gm.inline_constraints :
            /\ k \in DOMAIN range_constraints
            /\ range_constraints[k] = gm.inline_constraints[k]

C12_Witness ==
    /\ mc_pc = "returned"
    /\ ShapesGiven
    /\ gm.inline_constraints # EmptyDict
    /\ UserExprs # {}
    /\ DOMAIN range_constraints # DOMAIN gm.inline_constraints

\* C13: the entries of the returned mapping are the inline constraints and
\* the entries of the dimensions of user-input tensor placeholders (their
\* expressions and free symbols); a shape spec is read for those placeholders
\* only: not for lifted inputs, other nodes, constants or custom objects.
C13_OnlyUserTensorInputs ==
    mc_pc = "returned" =>
        /\ DOMAIN range_constraints
                = (DOMAIN gm.inline_constraints) \cup UserExprs \cup UserFreeSymbols
        /\ \A k \in DOMAIN processed :
                processed[k].input_index + 1 \in UserTensorInputs

C13_Witness ==
    /\ mc_pc = "returned"
    /\ ShapesGiven
    /\ num_lifted_inputs = 1
    /\ \E i \in DOMAIN gm.nodes :
        /\ gm.nodes[i].op = "placeholder"
        /\ gm.nodes[i].val.kind = "CustomObjArgument"
    /\ UserExprs = {"s0"}
    /\ "s1" \notin DOMAIN range_constraints
    /\ Len(processed) = 1

\* The leaves at which a tensor occurs and the entries tracked for it.
LeavesOf(t) == {p \in DOMAIN leaves : IsTensorLeaf(leaves[p]) /\ leaves[p].val.id = t}
TrackedOf(t) ==
    {k \in DOMAIN shape_env.tracked_fakes : shape_env.tracked_fakes[k].fake.id = t}

\* C14 (as stated): after make_fake_inputs, tracked_fakes holds at most one
\* entry per distinct input tensor object, and at most one size source is
\* recorded per constrained (tensor, dimension).
C14_AsStated ==
    pc = "faked" =>
        /\ \A t \in TensorIds : Cardinality(TrackedOf(t)) <= 1
        /\ \A key \in DOMAIN sources : Len(sources[key]) <= 1

\* C14 (amended): tracked_fakes holds one entry per leaf at which a tensor
\* occurs, and a constrained (tensor, dimension) has one size source per such
\* leaf, each built on the source of that leaf; a tensor that occurs at
\* several leaves has several entries and several sources.
C14_OncePerLeaf ==
    pc = "faked" =>
        /\ \A t \in TensorIds : Cardinality(TrackedOf(t)) = Cardinality(LeavesOf(t))
        /\ \A key \in DOMAIN t_constraints :
            LET recorded == GetList(sources, key) IN
            /\ Len(recorded) = Cardinality(LeavesOf(key[1]))
            /\ Range(recorded) =
                    {TensorPropertySource(key_path_to_source(leaves[p].kp).source, key[2]) :
                        p \in LeavesOf(key[1])}

C14_Witness ==
    /\ pc = "faked"
    /\ Len(leaves) = 2
    /\ IsTensorLeaf(leaves[1])
    /\ leaves[1].val = leaves[2].val
    /\ Len(shape_env.tracked_fakes) = 2
    /\ \E key \in DOMAIN sources : Len(sources[key]) = 2

\* C16: in every call after whose guard production dim_constraints is None,
\* a constraint violation was caught (the assertion holds) and that error is
\* raised with its message unchanged; solve, remove_redundant_dynamic_results,
\* forced_specializations and prettify_results are not called.
C16_EarlyViolationReraised ==
    \A k \in Called :
        LET h == history[k] IN
        ~h.dim_constraints.exists =>
            /\ h.args.violation.type = "ConstraintViolationError"
            /\ h.error # AssertionError
            /\ h.outcome = "raise"
            /\ h.error.type = h.args.violation.type
            /\ h.error.args0 = h.args.violation.args0
            /\ h.calls = <<"produce_guards">>

C16_Witness ==
    /\ Len(history) >= 1
    /\ ~history[1].dim_constraints.exists
    /\ "early_violation" \in shape_env.guards
    /\ "specialization" \in shape_env.guards
    /\ history[1].error = ConstraintViolationError(<<"Constraints violated">>)

\* C17: the shape environment is frozen on every exit of a call (the return,
\* the early raise when dim_constraints is None, the raise after solving),
\* stays frozen afterwards, and is frozen when solve is called.
C17_FrozenOnExit ==
    /\ \A k \in Called :
        LET h == history[k] IN
        /\ h.frozen_at_exit
        /\ "solve" \in Range(h.calls) => h.frozen_at_solve
    /\ Len(history) >= 1 => shape_env.frozen

C17_Witness ==
    /\ Len(history) >= 1
    /\ shape_env.frozen
    /\ history[1].frozen_at_solve
    /\ history[1].outcome = "raise"
    /\ history[1].calls[2] = "solve"

\* The ordinal of node i among the user inputs: the number of placeholders
\* between the lifted inputs and node i.
Ordinal(i) ==
    Cardinality({j \in DOMAIN gm.nodes :
                    j > num_lifted_inputs /\ j < i /\ gm.nodes[j].op = "placeholder"})
AssertionPasses ==
    Len(dynamic_shapes.flat) = num_placeholders(gm.nodes) - num_lifted_inputs

\* C18: on a graph that passes the assertion on the number of shape specs,
\* no read of flat_dynamic_shapes fails, every user-input tensor placeholder
\* is processed, and the index each processed placeholder reads lies within
\* flat_dynamic_shapes and is the placeholder's ordinal among the user inputs.
C18_SpecIndexIsOrdinal ==
    (mc_pc \in {"returned", "failed"} /\ ShapesGiven /\ AssertionPasses) =>
        /\ mc_pc = "returned"
        /\ mc_error = ""
        /\ {processed[k].input_index + 1 : k \in DOMAIN processed} = UserTensorInputs
        /\ \A k \in DOMAIN processed :
            /\ processed[k].spec_index >= 0
            /\ processed[k].spec_index < Len(dynamic_shapes.flat)
            /\ processed[k].spec_index = Ordinal(processed[k].input_index + 1)

C18_Witness ==
    /\ mc_pc = "returned"
    /\ ShapesGiven
    /\ AssertionPasses
    /\ num_lifted_inputs = 1
    /\ Len(processed) = 2
    /\ processed[1].spec_index = 0
    /\ processed[2].spec_index = 1
    /\ dynamic_shapes.flat[1] # dynamic_shapes.flat[2]

\* The keys of params_buffers and the tensor each one maps to.
ParamKeys == {params_buffers[i].key : i \in DOMAIN params_buffers}
ParamValue(k) ==
    params_buffers[CHOOSE i \in DOMAIN params_buffers : params_buffers[i].key = k].value

\* C19: the result of make_fake_params_buffers has the keys of
\* params_buffers; two keys map to the same fake tensor object exactly when
\* their values are the same tensor object; from_tensor is called once per
\* distinct tensor object, each time with static shapes.
C19_AliasingPreserved ==
    pb_pc = "returned" =>
        /\ DOMAIN faked_params_buffers = ParamKeys
        /\ \A k1 \in ParamKeys : \A k2 \in ParamKeys :
            (faked_params_buffers[k1] = faked_params_buffers[k2])
                <=> (ParamValue(k1) = ParamValue(k2))
        /\ \A k \in ParamKeys : faked_params_buffers[k].id = ParamValue(k)
        /\ Len(from_tensor_calls) = Cardinality({ParamValue(k) : k \in ParamKeys})
        /\ \A i \in DOMAIN from_tensor_calls : \A j \in DOMAIN from_tensor_calls :
            /\ from_tensor_calls[i].static_shapes
            /\ from_tensor_calls[i].value = from_tensor_calls[j].value => i = j

C19_Witness ==
    /\ pb_pc = "returned"
    /\ Len(params_buffers) = 3
    /\ params_buffers[1].value = params_buffers[3].value
    /\ params_buffers[1].value # params_buffers[2].value
    /\ Len(from_tensor_calls) = 2
    /\ faked_params_buffers[params_buffers[1].key]
            = faked_params_buffers[params_buffers[3].key]

\* The occurrences of a substring in all generated programs, and the expected
\* count the harness was given for it.
Occurrences(substr) ==
    Cardinality(UNION {{<<i, j>> : j \in {q \in DOMAIN code[i] : code[i][q] = substr}} :
                            i \in DOMAIN code})
ExpectedOf(substr) ==
    IF substr = "@triton.jit" THEN expected_num_triton_kernels
    ELSE expected_num_block_pointers
Differs(substr) ==
    ExpectedOf(substr) # NoExpected /\ Occurrences(substr) # ExpectedOf(substr)

====
